---- MODULE Spec2Model ----
(***************************************************************************)
(* Feed aggregator (marovole/feed): the server's poll scheduler            *)
(* (src/src/scrapers/twitter.js, lines 193-402: /api/refresh, pollFeeds,   *)
(* start) and the one-shot CLI scraper (src/src/scraper-cli.js, main).     *)
(*                                                                         *)
(* JavaScript runs one callback at a time: an action below is the code     *)
(* between two suspension points (await) of one handler.                   *)
(***************************************************************************)
EXTENDS Integers, Sequences, FiniteSets, TLC

(***************************************************************************)
(* Bounds of the model.                                                    *)
(***************************************************************************)
MaxFetched == 2      \* items the three sources return together in one cycle
MaxTriggers == 3     \* triggers that arrive while no cycle is running, per run
MaxCycles == 3       \* CLI runs in one behaviour
MaxSlots == 2        \* pollFeeds invocations that could be in flight at once
MaxElapsed == 30000  \* milliseconds of clock a server run covers
StartTime == 100000  \* Date.now() when the server starts (any value >= 30000)
MaxFaults == 1       \* sources that meet a failure in one poll cycle
MaxTweets == 3       \* tweets in one batch handed to filterTweets
MaxPosts == 3        \* posts in one list handed to upsertPosts
MaxRefetches == 3    \* fetches of the same source items by the adapters

(***************************************************************************)
(* Program constants.  The two retention limits are scaled down (500 -> 2, *)
(* 1000 -> 3) keeping seen-limit > feed-limit.                             *)
(***************************************************************************)
MANUAL_REFRESH_THROTTLE_MS == 30000
FeedLimit == 2
SeenLimit == 3

(***************************************************************************)
(* Items.  A normalized item is a record; the sources' items are a small   *)
(* catalogue keyed by id, so a re-fetched item is the same record.         *)
(* conversation_id "" stands for an absent metadata.conversation_id: only  *)
(* tweets carry one (twitter.js 127).                                      *)
(***************************************************************************)
Catalogue ==
  { [id |-> 1, source |-> "reddit",  author |-> "ann",  timestamp |-> 3, conversation_id |-> ""],
    [id |-> 2, source |-> "reddit",  author |-> "bob",  timestamp |-> 5, conversation_id |-> ""],
    [id |-> 3, source |-> "github",  author |-> "cat",  timestamp |-> 3, conversation_id |-> ""],
    [id |-> 4, source |-> "twitter", author |-> "dan",  timestamp |-> 4, conversation_id |-> "t1"],
    [id |-> 5, source |-> "twitter", author |-> "eve",  timestamp |-> 1, conversation_id |-> "t1"] }

SeqsUpTo(S, n) == UNION { [1..k -> S] : k \in 0..n }

BatchesOf(items, src, n) == SeqsUpTo({ it \in items : it.source = src }, n)

NoDuplicateIds(items) ==
  \A i, j \in 1..Len(items) : items[i].id = items[j].id => i = j

\* what the three scrapers can resolve to in one cycle: <<reddit, github, twitter>>.
\* A GitHub batch numbers each discussion and issue once; the datasets behind
\* the Reddit and Twitter batches may list a post twice.
FetchOutcomes(items, n) ==
  { f \in BatchesOf(items, "reddit", n) \X BatchesOf(items, "github", n)
          \X BatchesOf(items, "twitter", n) :
      Len(f[1]) + Len(f[2]) + Len(f[3]) <= n /\ NoDuplicateIds(f[2]) }

\* the items on offer while the scheduler is exercised: one post, one tweet
FewItems == { it \in Catalogue : it.id \in {1, 4} }

(***************************************************************************)
(* The source adapters, as far as their failures go: what the promise of   *)
(* one call settles to, given the failure the call meets and the items the *)
(* source would deliver without one.                                       *)
(***************************************************************************)
Fulfilled(items) == [status |-> "fulfilled", value |-> items]
Rejected == [status |-> "rejected", value |-> <<>>]

\* the failures a call can meet: the configuration file does not read or
\* parse, a module does not load, a request fails, a response is malformed
RedditFaults == {"none", "config", "network", "response"}
GitHubFaults == {"none", "module", "network", "response"}
TwitterFaults == {"none", "config", "network", "response"}

\* scrapeReddit (part_001): lines 16-19 read and parse docs/config.json before
\* the try block begins (27); the catch (103-106) returns []
scrapeReddit(fault, posts) ==
  IF fault = "config" THEN Rejected
  ELSE IF fault = "none" THEN Fulfilled(posts)
  ELSE Fulfilled(<<>>)

\* scrapeGitHub: line 21 awaits import('@octokit/graphql') before the try
\* block begins (23); the catch (105-108) returns []
scrapeGitHub(fault, items) ==
  IF fault = "module" THEN Rejected
  ELSE IF fault = "none" THEN Fulfilled(items)
  ELSE Fulfilled(<<>>)

\* scrapeTwitter: the configuration is read inside a try of its own and falls
\* back to the default search terms (22-29); the catch (150-156) returns []
scrapeTwitter(fault, tweets) ==
  IF fault \in {"none", "config"} THEN Fulfilled(tweets)
  ELSE Fulfilled(<<>>)

\* the failures met by <<reddit, github, twitter>> in one cycle, at most n of
\* the sources failing
FaultVectors(n) ==
  { v \in RedditFaults \X GitHubFaults \X TwitterFaults :
      Cardinality({ k \in 1..3 : v[k] # "none" }) <= n }

NoFaults == FaultVectors(0)

(***************************************************************************)
(* Pure helpers.                                                           *)
(***************************************************************************)
RECURSIVE SelectSeqP(_, _)
\* Array.prototype.filter with a predicate given as a set of kept values
SelectSeqP(s, keep) ==
  IF s = <<>> THEN <<>>
  ELSE (IF Head(s) \in keep THEN <<Head(s)>> ELSE <<>>) \o SelectSeqP(Tail(s), keep)

Range(s) == { s[i] : i \in 1..Len(s) }

IdsOf(items) == [i \in 1..Len(items) |-> items[i].id]

\* Array.prototype.slice(0, n)
SliceFirst(s, n) == IF Len(s) <= n THEN s ELSE SubSeq(s, 1, n)

\* Array.prototype.slice(-n)
SliceLast(s, n) == IF Len(s) <= n THEN s ELSE SubSeq(s, Len(s) - n + 1, Len(s))

RECURSIVE ArrayFromSet(_)
\* Array.from(new Set(ids)) followed by later add()s: insertion order, first
\* occurrence of each value
ArrayFromSet(s) ==
  IF s = <<>> THEN <<>>
  ELSE LET r == ArrayFromSet(SubSeq(s, 1, Len(s) - 1))
           x == s[Len(s)]
       IN IF x \in Range(r) THEN r ELSE Append(r, x)

RECURSIVE InsertDesc_BeforeEquals(_, _)
\* an insertion that puts x in front of the elements with its timestamp
InsertDesc_BeforeEquals(sorted, x) ==
  IF sorted = <<>> THEN <<x>>
  ELSE IF Head(sorted).timestamp > x.timestamp
       THEN <<Head(sorted)>> \o InsertDesc_BeforeEquals(Tail(sorted), x)
       ELSE <<x>> \o sorted

RECURSIVE InsertDesc(_, _)
\* place x after every element whose timestamp is >= its own
InsertDesc(sorted, x) ==
  IF sorted = <<>> THEN <<x>>
  ELSE IF Head(sorted).timestamp >= x.timestamp
       THEN <<Head(sorted)>> \o InsertDesc(Tail(sorted), x)
       ELSE <<x>> \o sorted

RECURSIVE SortByTimestampDesc(_)
\* feed.sort((a, b) => new Date(b.timestamp) - new Date(a.timestamp)): stable
SortByTimestampDesc(s) ==
  IF s = <<>> THEN <<>>
  ELSE InsertDesc(SortByTimestampDesc(SubSeq(s, 1, Len(s) - 1)), s[Len(s)])

(***************************************************************************)
(* scrapers/twitter.js: filterTweets.  TEAM_TWITTER_USERNAMES is the       *)
(* environment's list after split(','), trim() and toLowerCase().          *)
(***************************************************************************)
TeamUsernames == <<"teamdev">>

\* the author compared as it is spelled
ToLowerCase_AsSpelled(str) == str

\* String.prototype.toLowerCase on the author names the model uses
ToLowerCase(str) ==
  CASE str = "TeamDev" -> "teamdev"
    [] str = "Dan"     -> "dan"
    [] OTHER           -> str

RECURSIVE filterTweets_NoRecord(_, _)
\* a filter that tests the caller's set and never adds to it
filterTweets_NoRecord(tweets, seenConversationIds) ==
  IF tweets = <<>> THEN [kept |-> <<>>, seen |-> seenConversationIds]
  ELSE LET tweet == Head(tweets)
           conversationId == tweet.conversation_id
           rest == filterTweets_NoRecord(Tail(tweets), seenConversationIds)
       IN IF ToLowerCase(tweet.author) \in Range(TeamUsernames)
             \/ (conversationId # "" /\ conversationId \in seenConversationIds)
          THEN rest
          ELSE [kept |-> <<tweet>> \o rest.kept, seen |-> rest.seen]

RECURSIVE filterTweets_KeptBehind(_, _)
\* a filter that puts each tweet it keeps behind the ones it keeps later
filterTweets_KeptBehind(tweets, seenConversationIds) ==
  IF tweets = <<>> THEN [kept |-> <<>>, seen |-> seenConversationIds]
  ELSE LET tweet == Head(tweets)
           conversationId == tweet.conversation_id
           dropped == \/ ToLowerCase(tweet.author) \in Range(TeamUsernames)
                      \/ (conversationId # "" /\ conversationId \in seenConversationIds)
           seenAfter == IF dropped \/ conversationId = "" THEN seenConversationIds
                        ELSE seenConversationIds \cup {conversationId}
           rest == filterTweets_KeptBehind(Tail(tweets), seenAfter)
       IN IF dropped THEN rest ELSE [kept |-> rest.kept \o <<tweet>>, seen |-> rest.seen]

RECURSIVE filterTweets_AnyId(_, _)
\* a filter that takes an absent conversation id for an id like any other
filterTweets_AnyId(tweets, seenConversationIds) ==
  IF tweets = <<>> THEN [kept |-> <<>>, seen |-> seenConversationIds]
  ELSE LET tweet == Head(tweets)
           conversationId == tweet.conversation_id
           dropped == \/ ToLowerCase(tweet.author) \in Range(TeamUsernames)
                      \/ conversationId \in seenConversationIds
           seenAfter == IF dropped THEN seenConversationIds
                        ELSE seenConversationIds \cup {conversationId}
           rest == filterTweets_AnyId(Tail(tweets), seenAfter)
       IN IF dropped THEN rest ELSE [kept |-> <<tweet>> \o rest.kept, seen |-> rest.seen]

RECURSIVE filterTweets_RecordsDropped(_, _)
\* a filter that records the conversation id before it looks at the author
filterTweets_RecordsDropped(tweets, seenConversationIds) ==
  IF tweets = <<>> THEN [kept |-> <<>>, seen |-> seenConversationIds]
  ELSE LET tweet == Head(tweets)
           conversationId == tweet.conversation_id
           dropped == \/ ToLowerCase(tweet.author) \in Range(TeamUsernames)
                      \/ (conversationId # "" /\ conversationId \in seenConversationIds)
           seenAfter == IF conversationId # ""
                        THEN seenConversationIds \cup {conversationId}
                        ELSE seenConversationIds
           rest == filterTweets_RecordsDropped(Tail(tweets), seenAfter)
       IN IF dropped THEN rest ELSE [kept |-> <<tweet>> \o rest.kept, seen |-> rest.seen]

RECURSIVE filterTweets(_, _)
\* the filter callback applied left to right; seenConversationIds is mutated
\* by the callback, so the result carries the set as it is after the pass
filterTweets(tweets, seenConversationIds) ==
  IF tweets = <<>> THEN [kept |-> <<>>, seen |-> seenConversationIds]
  ELSE LET tweet == Head(tweets)
           conversationId == tweet.conversation_id
       IN IF ToLowerCase(tweet.author) \in Range(TeamUsernames)
          THEN filterTweets(Tail(tweets), seenConversationIds)
          ELSE IF conversationId # "" /\ conversationId \in seenConversationIds
          THEN filterTweets(Tail(tweets), seenConversationIds)
          ELSE LET seenAfter == IF conversationId # ""
                                THEN seenConversationIds \cup {conversationId}
                                ELSE seenConversationIds
                   rest == filterTweets(Tail(tweets), seenAfter)
               IN [kept |-> <<tweet>> \o rest.kept, seen |-> rest.seen]

(***************************************************************************)
(* storage.js (not among the sources): modelled from the specification.    *)
(***************************************************************************)
\* filterNewItems(items, seenIds): admit a candidate iff its id is not in seenIds
filterNewItems(items, seenIds) ==
  SelectSeqP(items, { it \in Range(items) : it.id \notin seenIds })

\* saveFeed(feed): what is written to data/feed.json
saveFeedImage(feed) == SliceFirst(SortByTimestampDesc(feed), FeedLimit)

\* saveSeen(seenData): what is written to data/seen.json
saveSeenImage(seenData) ==
  [ids |-> SliceLast(seenData.ids, SeenLimit),
   conversations |-> SliceLast(seenData.conversations, SeenLimit)]

EmptySeen == [ids |-> <<>>, conversations |-> <<>>]

(***************************************************************************)
(* State.                                                                  *)
(***************************************************************************)
VARIABLES
  \* server (twitter.js 193-402)
  isPolling,          \* let isPolling
  lastManualRefresh,  \* let lastManualRefresh
  now,                \* Date.now()
  phase,              \* start(): "init", "initialPoll" (awaiting the first pollFeeds), "scheduled"
  cycle,              \* per pollFeeds invocation in flight: its position and locals
  response,           \* the last answer of POST /api/refresh
  lastOutcome,        \* how the last finished pollFeeds body ended: "none", "ok", "failed"
  lastTrigger,        \* the last call of pollFeeds(): who called, and "started" or "skipped"
  slackCalls,         \* per item id, the postBatchToSlack calls that carried it (counted to 2)
  idleTriggers,       \* triggers that arrived while isPolling was false
  cyclesStarted,      \* times pollFeeds set isPolling to true
  fetchLog,           \* the last Promise.all of the scrapers that rejected: who, and the others' values
  \* files
  dataFeed,           \* data/feed.json (storage.js)
  dataSeen,           \* data/seen.json (storage.js)
  docsFeed,           \* docs/data/feed.json: whether it reads and parses, and its content
  docsSeen,           \* docs/data/seen.json: likewise
  \* CLI scraper (scraper-cli.js)
  cli,                \* the run of main() in progress: its position and locals
  prev,               \* what the sources returned and what was admitted in the run before
  runs,               \* runs of main() started
  evicted,            \* ids of items that slice(0, 500) has dropped from the feed
  \* a call of filterTweets, or of upsertPosts, on its own
  call                \* its arguments, and after it returned its result and what it left behind

schedVars == <<isPolling, lastManualRefresh, now, phase, cycle, response, lastOutcome,
               lastTrigger, slackCalls, idleTriggers, cyclesStarted, fetchLog>>
fileVars == <<dataFeed, dataSeen>>
cliVars == <<docsFeed, docsSeen, cli, prev, runs, evicted>>
filterVars == <<call>>
vars == <<schedVars, fileVars, cliVars, filterVars>>

\* a file that is absent or does not parse, and a file holding a value
NoFile == [ok |-> FALSE, data |-> <<>>]
File(content) == [ok |-> TRUE, data |-> content]

NoRun == [pc |-> "none", feed |-> <<>>, seenData |-> EmptySeen, fetched |-> <<>>,
          allItems |-> <<>>, newItems |-> <<>>, seen |-> <<>>, trimmedFeed |-> <<>>,
          upsertCalled |-> FALSE, upserted |-> <<>>]
NoPrev == [fetched |-> <<>>, newItems |-> <<>>]

Slots == 1..MaxSlots
NoCycle == [pc |-> "none", trigger |-> "none", currentFeed |-> <<>>, seenData |-> EmptySeen,
            filteredTweets |-> <<>>, newItems |-> <<>>]
NoCall == [pc |-> "none", tweets |-> <<>>, seenBefore |-> {}, seenConversationIds |-> {},
           filtered |-> <<>>]
NoFetchLog == [rejected |-> {}, values |-> <<>>]
NoResponse == [status |-> 0, kind |-> "none", wait |-> 0]
InFlight == { s \in Slots : cycle[s].pc # "none" }

(***************************************************************************)
(* Server: pollFeeds (twitter.js 285-355).                                 *)
(***************************************************************************)
\* the guard left out
AlreadyPolling_Never == FALSE

\* line 286: if (isPolling) return
AlreadyPolling == isPolling

FreeSlot == CHOOSE s \in Slots : cycle[s].pc = "none" /\ \A t \in Slots : cycle[t].pc = "none" => s <= t

\* the guard placed inside the try, so that the skip runs the finally
pollFeedsEnter_SkipInsideTry(trig) ==
  IF AlreadyPolling
  THEN /\ isPolling' = FALSE
       /\ UNCHANGED <<cycle, cyclesStarted>>
       /\ lastTrigger' = [kind |-> trig, effect |-> "skipped"]
  ELSE /\ \E s \in Slots : cycle[s].pc = "none"
       /\ isPolling' = TRUE
       /\ cycle' = [cycle EXCEPT ![FreeSlot] = [NoCycle EXCEPT !.pc = "load", !.trigger = trig]]
       /\ cyclesStarted' = cyclesStarted + 1
       /\ lastTrigger' = [kind |-> trig, effect |-> "started"]

\* lines 286-300: the synchronous start of pollFeeds(), up to its first await
pollFeedsEnter(trig) ==
  IF AlreadyPolling
  THEN /\ UNCHANGED <<isPolling, cycle, cyclesStarted>>
       /\ lastTrigger' = [kind |-> trig, effect |-> "skipped"]
  ELSE /\ \E s \in Slots : cycle[s].pc = "none"
       /\ isPolling' = TRUE
       /\ cycle' = [cycle EXCEPT ![FreeSlot] = [NoCycle EXCEPT !.pc = "load", !.trigger = trig]]
       /\ cyclesStarted' = cyclesStarted + 1
       /\ lastTrigger' = [kind |-> trig, effect |-> "started"]

\* the flag cleared at the end of the try block instead of in a finally
isPollingAfter_NoFinally(outcome) == outcome = "failed"

\* lines 350-354: catch logs, finally clears the flag, whatever the outcome
isPollingAfter(outcome) == FALSE

\* a catch that logs and throws again: the handler's own catch answers 500
pollFeedsReturn_Rethrows(s, outcome) ==
  /\ isPolling' = isPollingAfter(outcome)
  /\ cycle' = [cycle EXCEPT ![s] = NoCycle]
  /\ lastOutcome' = outcome
  /\ response' = IF cycle[s].trigger = "manual"
                 THEN IF outcome = "failed"
                      THEN [status |-> 500, kind |-> "error", wait |-> 0]
                      ELSE [status |-> 200, kind |-> "success", wait |-> 0]
                 ELSE response
  /\ phase' = IF cycle[s].trigger = "startup" THEN "scheduled" ELSE phase

\* the end of a pollFeeds body, and what the awaiting caller does next:
\* /api/refresh answers (line 249), start() schedules the cron job (379)
pollFeedsReturn(s, outcome) ==
  /\ isPolling' = isPollingAfter(outcome)
  /\ cycle' = [cycle EXCEPT ![s] = NoCycle]
  /\ lastOutcome' = outcome
  /\ response' = IF cycle[s].trigger = "manual"
                 THEN [status |-> 200, kind |-> "success", wait |-> 0]
                 ELSE response
  /\ phase' = IF cycle[s].trigger = "startup" THEN "scheduled" ELSE phase

\* a load that empties data/feed.json once it has read it
LoadDone_Truncates(s) ==
  /\ cycle[s].pc = "load"
  /\ cycle' = [cycle EXCEPT ![s].pc = "fetch",
                            ![s].currentFeed = dataFeed,
                            ![s].seenData = dataSeen]
  /\ dataFeed' = <<>>
  /\ UNCHANGED <<isPolling, lastManualRefresh, now, phase, response, lastOutcome,
                 lastTrigger, slackCalls, idleTriggers, cyclesStarted, fetchLog, dataSeen, cliVars, filterVars>>

\* lines 297-303: loadFeed() and loadSeen() resolve
LoadDone(s) ==
  /\ cycle[s].pc = "load"
  /\ cycle' = [cycle EXCEPT ![s].pc = "fetch",
                            ![s].currentFeed = dataFeed,
                            ![s].seenData = dataSeen]
  /\ UNCHANGED <<isPolling, lastManualRefresh, now, phase, response, lastOutcome,
                 lastTrigger, slackCalls, idleTriggers, cyclesStarted, fetchLog, fileVars, cliVars, filterVars>>

\* lines 306-326: the three scrapers settle.  Promise.all rejects as soon as
\* one of them does, and the catch ends the cycle; otherwise filter, select,
\* and either start saveFeed or fall through to the end
FetchDone(s, outcomes, faults) ==
  /\ cycle[s].pc = "fetch"
  /\ \E f \in outcomes, fault \in faults :
       LET settled == <<scrapeReddit(fault[1], f[1]), scrapeGitHub(fault[2], f[2]),
                        scrapeTwitter(fault[3], f[3])>>
           rejected == { k \in 1..3 : settled[k].status = "rejected" }
           redditPosts == settled[1].value
           githubDiscussions == settled[2].value
           tweets == settled[3].value
           seenIds == Range(cycle[s].seenData.ids)
           seenConversations == Range(cycle[s].seenData.conversations)
           filteredTweets == filterTweets(tweets, seenConversations).kept
           allItems == redditPosts \o githubDiscussions \o filteredTweets
           newItems == filterNewItems(allItems, seenIds)
       IN IF rejected # {}
          THEN /\ pollFeedsReturn(s, "failed")
               /\ fetchLog' = [rejected |-> rejected,
                               values |-> <<redditPosts, githubDiscussions, tweets>>]
          ELSE /\ fetchLog' = NoFetchLog
               /\ IF Len(newItems) > 0
                  THEN /\ cycle' = [cycle EXCEPT ![s].pc = "saveFeed",
                                                 ![s].filteredTweets = filteredTweets,
                                                 ![s].newItems = newItems]
                       /\ UNCHANGED <<isPolling, lastOutcome, response, phase>>
                  ELSE pollFeedsReturn(s, "ok")
  /\ UNCHANGED <<lastManualRefresh, now, lastTrigger, slackCalls, idleTriggers,
                 cyclesStarted, fileVars, cliVars, filterVars>>

\* one more call of the sink for every id of the list
Posted(calls, ids) ==
  [i \in DOMAIN calls |-> IF i \in Range(ids) /\ calls[i] < 2 THEN calls[i] + 1 ELSE calls[i]]

\* the sink called as soon as the feed is written, before saveSeen
SaveFeedDone_ThenNotify(s) ==
  /\ cycle[s].pc = "saveFeed"
  /\ dataFeed' = saveFeedImage(cycle[s].currentFeed \o cycle[s].newItems)
  /\ slackCalls' = Posted(slackCalls, IdsOf(cycle[s].newItems))
  /\ cycle' = [cycle EXCEPT ![s].pc = "saveSeen"]
  /\ UNCHANGED <<isPolling, lastManualRefresh, now, phase, response, lastOutcome,
                 lastTrigger, idleTriggers, cyclesStarted, fetchLog, dataSeen, cliVars, filterVars>>

\* lines 325-326: saveFeed(updatedFeed) resolves
SaveFeedDone(s) ==
  /\ cycle[s].pc = "saveFeed"
  /\ LET updatedFeed == cycle[s].currentFeed \o cycle[s].newItems
     IN dataFeed' = saveFeedImage(updatedFeed)
  /\ cycle' = [cycle EXCEPT ![s].pc = "saveSeen"]
  /\ UNCHANGED <<isPolling, lastManualRefresh, now, phase, response, lastOutcome,
                 lastTrigger, slackCalls, idleTriggers, cyclesStarted, fetchLog, dataSeen, cliVars, filterVars>>

\* the conversation ids of the surviving tweets (lines 330-332)
ConversationsOf(tweets) ==
  LET ids == [i \in 1..Len(tweets) |-> tweets[i].conversation_id]
  IN SelectSeqP(ids, Range(ids) \ {""})

\* the seen write left out: the cycle goes on to the sink without it
SaveSeenDone_Skipped(s) ==
  /\ cycle[s].pc = "saveSeen"
  /\ cycle' = [cycle EXCEPT ![s].pc = "slack"]
  /\ UNCHANGED <<isPolling, lastManualRefresh, now, phase, response, lastOutcome,
                 lastTrigger, slackCalls, idleTriggers, cyclesStarted, fetchLog, fileVars, cliVars, filterVars>>

\* lines 329-337: saveSeen(...) resolves
SaveSeenDone(s) ==
  /\ cycle[s].pc = "saveSeen"
  /\ LET newIds == IdsOf(cycle[s].newItems)
         newConversations == ConversationsOf(cycle[s].filteredTweets)
     IN dataSeen' = saveSeenImage([ids |-> cycle[s].seenData.ids \o newIds,
                                   conversations |-> cycle[s].seenData.conversations
                                                     \o newConversations])
  /\ cycle' = [cycle EXCEPT ![s].pc = "slack"]
  /\ UNCHANGED <<isPolling, lastManualRefresh, now, phase, response, lastOutcome,
                 lastTrigger, slackCalls, idleTriggers, cyclesStarted, fetchLog, dataFeed, cliVars, filterVars>>

\* line 340: postBatchToSlack(newItems) resolves; then lines 342-354
SlackDone(s) ==
  /\ cycle[s].pc = "slack"
  /\ slackCalls' = Posted(slackCalls, IdsOf(cycle[s].newItems))
  /\ pollFeedsReturn(s, "ok")
  /\ UNCHANGED <<lastManualRefresh, now, lastTrigger, idleTriggers, cyclesStarted, fetchLog, fileVars, cliVars, filterVars>>

\* a failing saveFeed caught on the spot and logged, the body going on
StepThrows_GoesOn(s) ==
  /\ cycle[s].pc \in {"load", "fetch", "saveFeed", "saveSeen", "slack"}
  /\ IF cycle[s].pc = "saveFeed"
     THEN /\ cycle' = [cycle EXCEPT ![s].pc = "saveSeen"]
          /\ UNCHANGED <<isPolling, lastOutcome, response, phase>>
     ELSE pollFeedsReturn(s, "failed")
  /\ UNCHANGED <<lastManualRefresh, now, lastTrigger, slackCalls, idleTriggers,
                 cyclesStarted, fetchLog, fileVars, cliVars, filterVars>>

\* lines 350-354: an awaited operation of the body rejects; nothing it was
\* doing takes effect, the catch logs and the finally runs
StepThrows(s) ==
  /\ cycle[s].pc \in {"load", "fetch", "saveFeed", "saveSeen", "slack"}
  /\ pollFeedsReturn(s, "failed")
  /\ UNCHANGED <<lastManualRefresh, now, lastTrigger, slackCalls, idleTriggers,
                 cyclesStarted, fetchLog, fileVars, cliVars, filterVars>>

(***************************************************************************)
(* Server: the triggers.                                                   *)
(***************************************************************************)
\* Math.floor in place of Math.ceil
CeilSeconds_Floor(ms) == ms \div 1000

\* Math.ceil(x / 1000) for x >= 0
CeilSeconds(ms) == (ms + 999) \div 1000

\* line 243
waitTime(t) == CeilSeconds(MANUAL_REFRESH_THROTTLE_MS - (t - lastManualRefresh))

\* line 242
Throttled(t) == t - lastManualRefresh < MANUAL_REFRESH_THROTTLE_MS

\* a trigger arrives; those that find the scheduler idle are counted and bounded
Arrive ==
  /\ isPolling \/ idleTriggers < MaxTriggers
  /\ idleTriggers' = IF isPolling THEN idleTriggers ELSE idleTriggers + 1

\* lines 360-373: start() after initStorage(): listen, then the initial poll
StartUp ==
  /\ phase = "init"
  /\ phase' = "initialPoll"
  /\ Arrive
  /\ pollFeedsEnter("startup")
  /\ UNCHANGED <<lastManualRefresh, now, response, lastOutcome, slackCalls, fetchLog, fileVars, cliVars, filterVars>>

\* a cron tick held to the manual cool-down
CronTick_CoolDown ==
  /\ phase = "scheduled"
  /\ Arrive
  /\ IF Throttled(now)
     THEN /\ lastTrigger' = [kind |-> "cron", effect |-> "skipped"]
          /\ UNCHANGED <<isPolling, cycle, cyclesStarted>>
     ELSE pollFeedsEnter("cron")
  /\ UNCHANGED <<lastManualRefresh, now, phase, response, lastOutcome, slackCalls, fetchLog, fileVars, cliVars, filterVars>>

\* lines 379-381: a cron tick calls pollFeeds() and does not await it.  Ticks
\* are ten minutes apart, a cycle has no upper bound on its duration and a
\* request may come at any time, so a tick may find any state of the scheduler.
CronTick ==
  /\ phase = "scheduled"
  /\ Arrive
  /\ pollFeedsEnter("cron")
  /\ UNCHANGED <<lastManualRefresh, now, phase, response, lastOutcome, slackCalls, fetchLog, fileVars, cliVars, filterVars>>

\* the handler without its busy check (lines 237-239 left out)
refreshDecision_NoBusyCheck(polling, t) ==
  IF Throttled(t) THEN "throttled" ELSE "accepted"

\* the cool-down checked before the busy flag
refreshDecision_ThrottleFirst(polling, t) ==
  IF Throttled(t) THEN "throttled"
  ELSE IF polling THEN "busy"
  ELSE "accepted"

\* lines 237-247: the order of the handler's checks
refreshDecision(polling, t) ==
  IF polling THEN "busy"
  ELSE IF Throttled(t) THEN "throttled"
  ELSE "accepted"

\* lines 235-248: POST /api/refresh up to the first await inside pollFeeds()
ManualRefresh ==
  /\ phase # "init"
  /\ Arrive
  /\ LET decision == refreshDecision(isPolling, now)
     IN CASE decision = "busy" ->
               /\ response' = [status |-> 429, kind |-> "busy", wait |-> 0]
               /\ lastTrigger' = [kind |-> "manual", effect |-> "busy"]
               /\ UNCHANGED <<isPolling, lastManualRefresh, cycle, cyclesStarted>>
          [] decision = "throttled" ->
               /\ response' = [status |-> 429, kind |-> "throttled", wait |-> waitTime(now)]
               /\ lastTrigger' = [kind |-> "manual", effect |-> "throttled"]
               /\ UNCHANGED <<isPolling, lastManualRefresh, cycle, cyclesStarted>>
          [] OTHER ->
               /\ lastManualRefresh' = now
               /\ pollFeedsEnter("manual")
               /\ UNCHANGED response
  /\ UNCHANGED <<now, phase, lastOutcome, slackCalls, fetchLog, fileVars, cliVars, filterVars>>

\* the clock advances
Tick(steps) ==
  /\ \E d \in steps :
       /\ now + d <= StartTime + MaxElapsed
       /\ now' = now + d
  /\ UNCHANGED <<isPolling, lastManualRefresh, phase, cycle, response, lastOutcome,
                 lastTrigger, slackCalls, idleTriggers, cyclesStarted, fetchLog, fileVars, cliVars, filterVars>>

Init ==
  /\ isPolling = FALSE
  /\ lastManualRefresh = 0
  /\ now = StartTime
  /\ phase = "init"
  /\ cycle = [s \in Slots |-> NoCycle]
  /\ response = NoResponse
  /\ lastOutcome = "none"
  /\ lastTrigger = [kind |-> "none", effect |-> "none"]
  /\ slackCalls = [i \in { it.id : it \in Catalogue } |-> 0]
  /\ idleTriggers = 0
  /\ cyclesStarted = 0
  /\ fetchLog = NoFetchLog
  /\ dataFeed = <<>>
  /\ dataSeen = EmptySeen
  /\ docsFeed = NoFile
  /\ docsSeen = NoFile
  /\ cli = NoRun
  /\ prev = NoPrev
  /\ runs = 0
  /\ evicted = {}
  /\ call = NoCall

(***************************************************************************)
(* SpecServer: the scheduler under every interleaving of triggers, clock   *)
(* and cycle steps, with few items on offer.                               *)
(***************************************************************************)
TimeSteps == {5000, 24999}

ClockTick == Tick(TimeSteps)

CycleStep ==
  \E s \in Slots : LoadDone(s) \/ FetchDone(s, FetchOutcomes(FewItems, 1), NoFaults) \/ SaveFeedDone(s)
                   \/ SaveSeenDone(s) \/ SlackDone(s) \/ StepThrows(s)

NextServer == StartUp \/ CronTick \/ ManualRefresh \/ ClockTick \/ CycleStep

SpecServer == Init /\ [][NextServer]_vars

\* every awaited operation of a cycle completes or fails
FairSpecServer == SpecServer /\ WF_vars(CycleStep)

(***************************************************************************)
(* SpecPoll: the merge of successive poll cycles (the initial one and the  *)
(* ones cron starts), with the whole catalogue on offer and sources that   *)
(* may fail; every other awaited operation of a cycle succeeds.            *)
(***************************************************************************)
PollStep ==
  \E s \in Slots :
    \/ LoadDone(s)
    \/ FetchDone(s, FetchOutcomes(Catalogue, MaxFetched), FaultVectors(MaxFaults))
    \/ SaveFeedDone(s)
    \/ SaveSeenDone(s)
    \/ SlackDone(s)

NextPoll == StartUp \/ CronTick \/ PollStep

SpecPoll == Init /\ [][NextPoll]_vars

(***************************************************************************)
(* SpecFilter: filterTweets on its own, called once on every batch of up   *)
(* to MaxTweets tweets of a pool and every set of seen conversation ids.   *)
(***************************************************************************)
\* tweets of two conversations and of none, by team members (in two
\* spellings) and by others
TweetPool ==
  { it \in Catalogue : it.source = "twitter" } \cup
  { [id |-> 6, source |-> "twitter", author |-> "TeamDev", timestamp |-> 2, conversation_id |-> "t1"],
    [id |-> 7, source |-> "twitter", author |-> "teamdev", timestamp |-> 2, conversation_id |-> "t2"],
    [id |-> 8, source |-> "twitter", author |-> "Dan",     timestamp |-> 2, conversation_id |-> ""],
    [id |-> 9, source |-> "twitter", author |-> "eve",     timestamp |-> 2, conversation_id |-> "t2"] }

ConversationIds == { it.conversation_id : it \in TweetPool } \ {""}

InitFilter ==
  /\ isPolling = FALSE
  /\ lastManualRefresh = 0
  /\ now = StartTime
  /\ phase = "init"
  /\ cycle = [s \in Slots |-> NoCycle]
  /\ response = NoResponse
  /\ lastOutcome = "none"
  /\ lastTrigger = [kind |-> "none", effect |-> "none"]
  /\ slackCalls = [i \in { it.id : it \in Catalogue } |-> 0]
  /\ idleTriggers = 0
  /\ cyclesStarted = 0
  /\ fetchLog = NoFetchLog
  /\ dataFeed = <<>>
  /\ dataSeen = EmptySeen
  /\ docsFeed = NoFile
  /\ docsSeen = NoFile
  /\ cli = NoRun
  /\ prev = NoPrev
  /\ runs = 0
  /\ evicted = {}
  /\ \E tweets \in SeqsUpTo(TweetPool, MaxTweets), seen \in SUBSET ConversationIds :
       call = [NoCall EXCEPT !.pc = "called", !.tweets = tweets, !.seenBefore = seen,
                             !.seenConversationIds = seen]

\* the call returns: the kept tweets, and the caller's set as the callback left it
FilterReturns ==
  /\ call.pc = "called"
  /\ LET result == filterTweets(call.tweets, call.seenConversationIds)
     IN call' = [call EXCEPT !.pc = "returned", !.filtered = result.kept,
                             !.seenConversationIds = result.seen]
  /\ UNCHANGED <<schedVars, fileVars, cliVars>>

NextFilter == FilterReturns

SpecFilter == InitFilter /\ [][NextFilter]_vars

(***************************************************************************)
(* lib/supabase (part_002): upsertPosts.  The rows keep the id, source,    *)
(* author, timestamp and metadata of the posts they are formatted from, so *)
(* a row is written here as its post.                                      *)
(***************************************************************************)
RECURSIVE uniquePosts_KeepLast(_)
\* a deduplication in which the last occurrence of an id wins
uniquePosts_KeepLast(posts) ==
  IF posts = <<>> THEN <<>>
  ELSE IF \E i \in 2..Len(posts) : posts[i].id = Head(posts).id
       THEN uniquePosts_KeepLast(Tail(posts))
       ELSE <<Head(posts)>> \o uniquePosts_KeepLast(Tail(posts))

RECURSIVE uniquePosts(_)
\* lines 30-35: posts.filter over a Set of the ids met so far
uniquePosts(posts) ==
  IF posts = <<>> THEN <<>>
  ELSE LET before == uniquePosts(SubSeq(posts, 1, Len(posts) - 1))
           post == posts[Len(posts)]
       IN IF post.id \in Range(IdsOf(before)) THEN before ELSE Append(before, post)

UpsertResult(success, count) == [success |-> success, count |-> count]

\* lines 19-66.  supabase: whether the client exists (10-12); posts: the
\* argument, which may be missing; store: how the upsert request ends ("ok",
\* "error": it resolves with an error, "throws").  Gives the value returned
\* and the requests submitted to the store, each the list of its rows.
upsertPosts(supabase, posts, store) ==
  IF ~supabase THEN [result |-> UpsertResult(FALSE, 0), submitted |-> <<>>]
  ELSE IF ~posts.given \/ Len(posts.list) = 0
  THEN [result |-> UpsertResult(TRUE, 0), submitted |-> <<>>]
  ELSE LET formattedPosts == uniquePosts(posts.list)
       IN [result |-> IF store = "ok" THEN UpsertResult(TRUE, Len(formattedPosts))
                      ELSE UpsertResult(FALSE, 0),
           submitted |-> <<formattedPosts>>]

\* posts of three ids, one id under two different contents
PostPool ==
  { it \in Catalogue : it.id \in {1, 2, 3} } \cup
  { [id |-> 1, source |-> "reddit", author |-> "zed", timestamp |-> 6, conversation_id |-> ""] }

MissingList == [given |-> FALSE, list |-> <<>>]
GivenList(posts) == [given |-> TRUE, list |-> posts]

InitUpsert ==
  /\ isPolling = FALSE
  /\ lastManualRefresh = 0
  /\ now = StartTime
  /\ phase = "init"
  /\ cycle = [s \in Slots |-> NoCycle]
  /\ response = NoResponse
  /\ lastOutcome = "none"
  /\ lastTrigger = [kind |-> "none", effect |-> "none"]
  /\ slackCalls = [i \in { it.id : it \in Catalogue } |-> 0]
  /\ idleTriggers = 0
  /\ cyclesStarted = 0
  /\ fetchLog = NoFetchLog
  /\ dataFeed = <<>>
  /\ dataSeen = EmptySeen
  /\ docsFeed = NoFile
  /\ docsSeen = NoFile
  /\ cli = NoRun
  /\ prev = NoPrev
  /\ runs = 0
  /\ evicted = {}
  /\ \E supabase \in BOOLEAN, store \in {"ok", "error", "throws"},
        posts \in {MissingList} \cup { GivenList(l) : l \in SeqsUpTo(PostPool, MaxPosts) } :
       call = [pc |-> "called", supabase |-> supabase, posts |-> posts, store |-> store,
               result |-> UpsertResult(FALSE, 0), submitted |-> <<>>]

\* the call returns
UpsertReturns ==
  /\ call.pc = "called"
  /\ LET returned == upsertPosts(call.supabase, call.posts, call.store)
     IN call' = [call EXCEPT !.pc = "returned", !.result = returned.result,
                             !.submitted = returned.submitted]
  /\ UNCHANGED <<schedVars, fileVars, cliVars>>

NextUpsert == UpsertReturns

SpecUpsert == InitUpsert /\ [][NextUpsert]_vars

(***************************************************************************)
(* CLI scraper: main() (scraper-cli.js 24-144), one run per invocation.    *)
(***************************************************************************)
\* lines 34-43 and 47-54: a file that is missing or does not parse is replaced
\* by the default
\* a file whose text JSON.parse rejects (cut short, say): it is there, and
\* reading it as JSON gives nothing
Unparsable(file) == [ok |-> FALSE, data |-> file.data]

\* the catch left out: whatever the file holds is taken
readOr_Unguarded(file, default) == file.data

\* lines 34-54: readFile and JSON.parse in a try whose catch keeps the default
readOr(file, default) == IF file.ok THEN file.data ELSE default

\* lines 24-66: a run starts, loads both files and calls the three scrapers;
\* the run before it is kept on record or not
mainStarts(onRecord) ==
  /\ cli.pc \in {"none", "done"}
  /\ runs < MaxCycles
  /\ runs' = runs + 1
  /\ cli' = [NoRun EXCEPT !.pc = "fetch",
                          !.feed = readOr(docsFeed, <<>>),
                          !.seenData = readOr(docsSeen, EmptySeen)]
  /\ prev' = IF onRecord /\ cli.pc = "done"
             THEN [fetched |-> cli.fetched, newItems |-> cli.newItems]
             ELSE prev
  /\ UNCHANGED <<filterVars, schedVars, fileVars, docsFeed, docsSeen, evicted>>

CliStart == mainStarts(TRUE)

CliStartOffRecord == mainStarts(FALSE)

\* lines 81-87: the tweets go through filterTweets with a fresh set and move
\* behind the other items
twitterFiltered(allItems) ==
  LET twitterItems == SelectSeqP(allItems, { it \in Range(allItems) : it.source = "twitter" })
      otherItems == SelectSeqP(allItems, { it \in Range(allItems) : it.source # "twitter" })
  IN IF Len(twitterItems) > 0
     THEN otherItems \o filterTweets(twitterItems, {}).kept
     ELSE allItems

\* line 100: feed.slice(0, 500)
trimFeed(feed) == SliceFirst(feed, FeedLimit)

\* ids of the items the slice drops
DroppedIds(feed) == Range(IdsOf(feed)) \ Range(IdsOf(trimFeed(feed)))

\* lines 62-102: the scrapers have settled; merge, and with new items sort,
\* trim and call saveFeed.  Promise.allSettled waits for all three, and a
\* result that is rejected, or is no array, adds nothing (lines 72-77): for
\* the run it is an empty batch.
CliFetchedFrom(outcomes) ==
  /\ cli.pc = "fetch"
  /\ \E f \in outcomes :
       LET seen == Range(cli.seenData.ids)
           allItems == twitterFiltered(f[1] \o f[2] \o f[3])
           newItems == filterNewItems(allItems, seen)
           feed == SortByTimestampDesc(cli.feed \o newItems)
       IN IF Len(newItems) > 0
          THEN /\ cli' = [cli EXCEPT !.pc = "saveFeed", !.fetched = f, !.allItems = allItems,
                                     !.newItems = newItems,
                                     !.seen = ArrayFromSet(cli.seenData.ids \o IdsOf(newItems)),
                                     !.feed = feed,
                                     !.trimmedFeed = trimFeed(feed)]
               /\ evicted' = evicted \cup DroppedIds(feed)
          ELSE /\ cli' = [cli EXCEPT !.pc = "writeFeed", !.fetched = f, !.allItems = allItems,
                                     !.seen = ArrayFromSet(cli.seenData.ids)]
               /\ UNCHANGED evicted
  /\ UNCHANGED <<filterVars, schedVars, fileVars, docsFeed, docsSeen, prev, runs>>

CliFetched == CliFetchedFrom(FetchOutcomes(Catalogue, MaxFetched))

\* the same step with one item on offer from Reddit and one from Twitter
CliFetchedFew == CliFetchedFrom(FetchOutcomes(FewItems, 1))

\* line 102: saveFeed(trimmedFeed) resolves
CliSaveFeedDone ==
  /\ cli.pc = "saveFeed"
  /\ dataFeed' = saveFeedImage(cli.trimmedFeed)
  /\ cli' = [cli EXCEPT !.pc = "writeFeed"]
  /\ UNCHANGED <<filterVars, schedVars, dataSeen, docsFeed, docsSeen, prev, runs, evicted>>

\* line 112: what is written to docs/data/feed.json
docsFeedImage(run) == run.feed

\* lines 110-112: docs/data/feed.json is written
CliWriteFeed ==
  /\ cli.pc = "writeFeed"
  /\ docsFeed' = File(docsFeedImage(cli))
  /\ cli' = [cli EXCEPT !.pc = "writeSeen"]
  /\ UNCHANGED <<filterVars, schedVars, fileVars, docsSeen, prev, runs, evicted>>

\* slice(0, 1000) in place of slice(-1000): the oldest ids kept
trimmedSeen_Oldest(run) ==
  [ids |-> SliceFirst(run.seen, SeenLimit),
   conversations |-> SliceFirst(run.seenData.conversations, SeenLimit)]

\* line 93 left out: the admitted ids never reach the set
trimmedSeen_LoadedOnly(run) ==
  [ids |-> SliceLast(run.seenData.ids, SeenLimit),
   conversations |-> SliceLast(run.seenData.conversations, SeenLimit)]

\* lines 115-118: trimmedSeen
trimmedSeen(run) ==
  [ids |-> SliceLast(run.seen, SeenLimit),
   conversations |-> SliceLast(run.seenData.conversations, SeenLimit)]

\* lines 115-119: docs/data/seen.json is written
CliWriteSeen ==
  /\ cli.pc = "writeSeen"
  /\ docsSeen' = File(trimmedSeen(cli))
  /\ cli' = [cli EXCEPT !.pc = "sync"]
  /\ UNCHANGED <<filterVars, schedVars, fileVars, docsFeed, prev, runs, evicted>>

\* line 127: the argument of upsertPosts
upsertArgument(run) == run.feed

\* lines 124-139: isConnected() resolves; when Supabase is configured
\* upsertPosts is called and resolves; then process.exit(0)
CliExit ==
  /\ cli.pc = "sync"
  /\ \E supabaseConnected \in BOOLEAN :
       cli' = IF supabaseConnected
              THEN [cli EXCEPT !.pc = "done", !.upsertCalled = TRUE,
                               !.upserted = upsertArgument(cli)]
              ELSE [cli EXCEPT !.pc = "done"]
  /\ UNCHANGED <<filterVars, schedVars, fileVars, docsFeed, docsSeen, prev, runs, evicted>>

NextCli == CliStart \/ CliFetched \/ CliSaveFeedDone \/ CliWriteFeed \/ CliWriteSeen \/ CliExit

\* runs of the CLI one after the other, from the first (no files yet), with no
\* failing read or write
SpecCli == Init /\ [][NextCli]_vars

\* the same runs, none of them keeping the run before it on record
NextCliRuns ==
  CliStartOffRecord \/ CliFetched \/ CliSaveFeedDone \/ CliWriteFeed \/ CliWriteSeen \/ CliExit

SpecCliRuns == Init /\ [][NextCliRuns]_vars

\* between two runs docs/data/feed.json or docs/data/seen.json is deleted or
\* damaged so that it no longer parses
ArtifactLost ==
  /\ cli.pc = "done"
  /\ runs < MaxCycles
  /\ \/ /\ docsFeed.ok
        /\ docsFeed' \in {NoFile, Unparsable(docsFeed)}
        /\ UNCHANGED docsSeen
     \/ /\ docsSeen.ok
        /\ docsSeen' \in {NoFile, Unparsable(docsSeen)}
        /\ UNCHANGED docsFeed
  /\ UNCHANGED <<filterVars, schedVars, fileVars, cli, prev, runs, evicted>>

NextCliLoads ==
  \/ CliStartOffRecord \/ CliFetchedFew \/ CliSaveFeedDone \/ CliWriteFeed \/ CliWriteSeen
  \/ CliExit \/ ArtifactLost

\* runs of the CLI whose files may be missing or unparsable when read
SpecCliLoads == Init /\ [][NextCliLoads]_vars

(***************************************************************************)
(* Claims about the scheduler (SpecServer, FairSpecServer).                *)
(***************************************************************************)
elapsed == now - lastManualRefresh

\* C1: at most one pollFeeds cycle is between its start and its finish at any
\* time, so no cycle loads the feed and seen-set while another one has loaded
\* them and not yet saved.
C1_SingleFlight ==
  /\ Cardinality(InFlight) <= 1
  /\ (InFlight # {}) = isPolling
  /\ \A s, t \in Slots :
       s # t => ~(cycle[s].pc = "load" /\ cycle[t].pc \in {"fetch", "saveFeed", "saveSeen"})

\* a refresh request was turned away while a cycle was between load and save
C1_Witness ==
  /\ lastTrigger = [kind |-> "manual", effect |-> "busy"]
  /\ \E s \in Slots : cycle[s].pc \in {"fetch", "saveFeed", "saveSeen"}

\* C2: a trigger that arrives while a cycle is running starts no cycle, then
\* or later: no step taken while a cycle runs starts one, a cycle starts only
\* in the step of a trigger that found the scheduler idle, and the cycles
\* started never outnumber the triggers that arrived while idle.
C2_RejectedNotQueued ==
  [][ /\ cyclesStarted' <= idleTriggers'
      /\ isPolling => cyclesStarted' = cyclesStarted
      /\ cyclesStarted' # cyclesStarted =>
           ~isPolling /\ idleTriggers' = idleTriggers + 1 /\ cyclesStarted' = cyclesStarted + 1
    ]_vars

\* a cron tick was skipped while a cycle ran, and that cycle has since finished
\* without any cycle starting for the skipped tick
C2_Witness ==
  /\ lastTrigger = [kind |-> "cron", effect |-> "skipped"]
  /\ ~isPolling
  /\ InFlight = {}

\* C3: a refresh request that finds no cycle running less than 30 s after the
\* previous accepted one is answered "throttled" with the remaining cool-down
\* rounded up to whole seconds (1..30; 25 after 5 s) and starts nothing; one
\* that arrives 30 s or more after it is accepted and starts a cycle.
C3_Throttle ==
  [][ ManualRefresh /\ ~isPolling =>
        IF elapsed < 30000
        THEN /\ response'.kind = "throttled"
             /\ response'.status = 429
             /\ response'.wait \in 1..30
             /\ response'.wait * 1000 >= 30000 - elapsed
             /\ (response'.wait - 1) * 1000 < 30000 - elapsed
             /\ elapsed = 5000 => response'.wait = 25
             /\ UNCHANGED <<isPolling, cyclesStarted, cycle, lastManualRefresh>>
        ELSE /\ isPolling'
             /\ cyclesStarted' = cyclesStarted + 1
             /\ lastManualRefresh' = now
             /\ response' = response
    ]_vars

\* a request 5 s after an accepted one was told to wait 25 s
C3_Witness ==
  /\ lastTrigger = [kind |-> "manual", effect |-> "throttled"]
  /\ response.kind = "throttled"
  /\ response.wait = 25
  /\ elapsed = 5000

\* C4: a refresh request that arrives while a cycle is running is answered
\* "busy", never "throttled", whether or not the cool-down has expired.
C4_BusyFirst ==
  [][ ManualRefresh /\ isPolling =>
        /\ response'.kind = "busy"
        /\ response'.status = 429
        /\ UNCHANGED <<isPolling, cyclesStarted, cycle, lastManualRefresh>>
    ]_vars

\* a request was answered busy while the cool-down of an earlier accepted
\* request had not expired
C4_Witness ==
  /\ lastTrigger = [kind |-> "manual", effect |-> "busy"]
  /\ response.kind = "busy"
  /\ isPolling
  /\ lastManualRefresh > 0
  /\ elapsed < 30000

\* C5: a cron tick that finds the scheduler idle always starts a cycle, also
\* within 30 s of a manual refresh, and only the step that accepts a manual
\* refresh changes lastManualRefresh (no step of a cron-started cycle does).
C5_CronNotThrottled ==
  [][ /\ CronTick /\ ~isPolling =>
           /\ isPolling'
           /\ cyclesStarted' = cyclesStarted + 1
           /\ \E s \in Slots : cycle'[s].trigger = "cron" /\ cycle'[s].pc = "load"
      /\ lastManualRefresh' # lastManualRefresh =>
           /\ lastTrigger' = [kind |-> "manual", effect |-> "started"]
           /\ lastManualRefresh' = now
    ]_vars

\* a cycle started by cron is running less than 30 s after an accepted manual refresh
C5_Witness ==
  /\ \E s \in Slots : cycle[s].trigger = "cron" /\ cycle[s].pc # "none"
  /\ lastManualRefresh > 0
  /\ elapsed < 30000

\* C6: every cycle that starts returns the scheduler to idle, also when a step
\* of its body throws (the flag is set only while a cycle is in flight), and
\* after a failed cycle the next trigger that finds the scheduler idle proceeds
\* as usual: a cron tick, or a refresh request past the cool-down, starts a cycle.
C6_FailureDoesNotWedge ==
  /\ isPolling ~> ~isPolling
  /\ [](isPolling => InFlight # {})
  /\ [][ (lastOutcome = "failed" /\ ~isPolling
            /\ (CronTick \/ (ManualRefresh /\ elapsed >= 30000))) =>
           (isPolling' /\ cyclesStarted' = cyclesStarted + 1) ]_vars

\* a cycle failed, and a later trigger started a new one
C6_Witness ==
  /\ lastOutcome = "failed"
  /\ lastTrigger.effect = "started"
  /\ isPolling
  /\ cyclesStarted >= 2

(***************************************************************************)
(* Claims about the merge in the CLI scraper (SpecCli).                    *)
(***************************************************************************)
\* how many items of the list carry the id
Occurrences(items, id) == Cardinality({ i \in 1..Len(items) : items[i].id = id })

AllIds == { it.id : it \in Catalogue }

\* C7: when a source returns the same batch in two successive runs, each id of
\* the batch is admitted at most once across the two runs, and the feed
\* persisted after the second run holds no two items with the same id.
C7_RefetchIdempotent ==
  (cli.pc = "done" /\ runs >= 2) =>
    \A k \in 1..3 :
      (cli.fetched[k] = prev.fetched[k] /\ cli.fetched[k] # <<>>) =>
        /\ \A id \in Range(IdsOf(cli.fetched[k])) :
             Occurrences(prev.newItems \o cli.newItems, id) <= 1
        /\ NoDuplicateIds(docsFeed.data)

\* C8: from an empty feed and an empty seen-set, a run whose fetched items hold
\* the same id twice persists a feed with exactly one item of that id.
C8_DuplicateInBatch ==
  (cli.pc = "done" /\ runs = 1) =>
    LET fetchedItems == cli.fetched[1] \o cli.fetched[2] \o cli.fetched[3]
    IN \A id \in AllIds :
         Occurrences(fetchedItems, id) >= 2 => Occurrences(docsFeed.data, id) = 1

\* C9: after every run docs/data/feed.json holds at most the retention limit
\* of items.
C9_RetentionBound ==
  cli.pc = "done" => Len(docsFeed.data) <= FeedLimit

\* C10: an item that truncation has dropped from the feed is never admitted
\* again by a later run.
C10_EvictedStaysSeen ==
  [][ cli.pc = "fetch" => \A id \in evicted : Occurrences(cli'.newItems, id) = 0 ]_vars

\* C11: after every run, every id that occurs in docs/data/feed.json is among
\* the ids of docs/data/seen.json.
C11_FeedIdsSeen ==
  cli.pc = "done" => Range(IdsOf(docsFeed.data)) \subseteq Range(docsSeen.data.ids)

IsSortedDesc(items) ==
  \A i \in 1..Len(items) - 1 : items[i].timestamp >= items[i + 1].timestamp

\* the items of each timestamp are the same, in the same order, in both lists
SameOrderPerTimestamp(a, b) ==
  \A t \in { it.timestamp : it \in Range(a) \cup Range(b) } :
    SelectSeqP(a, { it \in Range(a) : it.timestamp = t })
      = SelectSeqP(b, { it \in Range(b) : it.timestamp = t })

\* the feed loaded by the run followed by the items it admitted
Concatenation == readOr(docsFeed, <<>>) \o cli.newItems

\* C12: the feed a run builds when it admits at least one item is sorted
\* descending by timestamp and keeps, among items of equal timestamp, the order
\* of the concatenation of the loaded feed and the admitted items; the trimmed
\* feed handed to saveFeed and the feed written to docs/data/feed.json are
\* sorted too.
C12_OrderInvariant ==
  /\ cli.pc = "saveFeed" =>
       /\ Len(cli.newItems) > 0
       /\ IsSortedDesc(cli.feed)
       /\ Len(cli.feed) = Len(Concatenation)
       /\ SameOrderPerTimestamp(cli.feed, Concatenation)
       /\ IsSortedDesc(cli.trimmedFeed)
  /\ (cli.pc = "done" /\ Len(cli.newItems) > 0) =>
       /\ docsFeed.data = cli.feed
       /\ IsSortedDesc(docsFeed.data)

\* a run admitted an item into a feed that holds another item of the same
\* timestamp, and the sort moved items
C12_Witness ==
  /\ cli.pc = "saveFeed"
  /\ cli.feed # Concatenation
  /\ \E i, j \in 1..Len(cli.feed) :
       /\ i < j
       /\ cli.feed[i].timestamp = cli.feed[j].timestamp
       /\ cli.feed[i].id # cli.feed[j].id
       /\ cli.feed[j] \in Range(cli.newItems)

\* C13: a run that admits no item leaves docs/data/feed.json holding the feed
\* it loaded, has an empty admitted list and hands no item to a sink.
C13_NoAdmissionNoOp ==
  /\ [][ (cli.pc = "writeFeed" /\ Len(cli.newItems) = 0) =>
           docsFeed'.data = readOr(docsFeed, <<>>) ]_vars
  /\ [](cli.pc = "done" /\ Len(cli.newItems) = 0 =>
         ~(cli.upsertCalled /\ Len(cli.upserted) > 0))

(***************************************************************************)
(* Claims about failing sources (SpecPoll).                                *)
(***************************************************************************)
\* the step in which the three scrapers of cycle s settle
Settles(s) == cycle[s].pc = "fetch" /\ cycle'[s].pc # "fetch"

\* what the cycle in slot s goes on with when its sources deliver these batches
Merged(s, batches) ==
  LET filteredTweets == filterTweets(batches[3], Range(cycle[s].seenData.conversations)).kept
      newItems == filterNewItems(batches[1] \o batches[2] \o filteredTweets,
                                 Range(cycle[s].seenData.ids))
  IN IF Len(newItems) > 0
     THEN [cycle[s] EXCEPT !.pc = "saveFeed", !.filteredTweets = filteredTweets,
                           !.newItems = newItems]
     ELSE NoCycle

\* C14: when one source's promise rejects and the other two fulfil, the cycle
\* goes on exactly as it does with the two fulfilled batches and nothing from
\* the third: it admits the same items, so it saves the same feed and seen-set.
C14_SourceFailureIsolated ==
  [][ \A s \in Slots :
        (Settles(s) /\ Cardinality(fetchLog'.rejected) = 1) =>
          cycle'[s] = Merged(s, fetchLog'.values) ]_vars

\* C15: no call of a source adapter ends in a rejected promise, whatever
\* failure it meets.
C15_AdaptersAlwaysFulfil ==
  fetchLog.rejected = {}

(***************************************************************************)
(* Claims about the sinks.                                                 *)
(***************************************************************************)
\* C16: postBatchToSlack receives the items admitted in the cycle that calls
\* it, each id once in the call, and over the cycles of a run no id is passed
\* to it by more than one call.
C16_NotifiedOnce ==
  /\ \A s \in Slots : cycle[s].pc = "slack" => NoDuplicateIds(cycle[s].newItems)
  /\ \A id \in AllIds : slackCalls[id] <= 1

\* C17: every item a run passes to upsertPosts was admitted by that run.
C17_UpsertAdmittedOnly ==
  (cli.pc = "done" /\ cli.upsertCalled) => Range(cli.upserted) \subseteq Range(cli.newItems)

(***************************************************************************)
(* Claims about filterTweets (SpecFilter).                                 *)
(***************************************************************************)
\* the spellings of the excluded author that differ in case only
TeamSpellings == {"teamdev", "TeamDev", "TEAMDEV"}

ByTeam(tweet) == tweet.author \in TeamSpellings

\* positions of the batch whose tweet carries the conversation id
Carrying(c) == { i \in 1..Len(call.tweets) : call.tweets[i].conversation_id = c }

\* the kept tweets that carry the conversation id
KeptOf(c) == SelectSeqP(call.filtered, { it \in Range(call.filtered) : it.conversation_id = c })

\* C18: filterTweets keeps no tweet whose author is an excluded author in any
\* spelling of case, whatever its conversation id, and a tweet by another
\* author is missing from the result only if its conversation id was in the
\* set, or entered it, when its turn came.
C18_ExcludedAuthorsDropped ==
  call.pc = "returned" =>
    /\ \A tweet \in Range(call.filtered) : ~ByTeam(tweet)
    /\ \A i \in 1..Len(call.tweets) :
         LET tweet == call.tweets[i]
         IN (~ByTeam(tweet) /\ tweet \notin Range(call.filtered)) =>
              /\ tweet.conversation_id # ""
              /\ \/ tweet.conversation_id \in call.seenBefore
                 \/ \E j \in 1..(i - 1) :
                      /\ ~ByTeam(call.tweets[j])
                      /\ call.tweets[j].conversation_id = tweet.conversation_id

\* a tweet by "TeamDev" of a conversation not seen was dropped while a tweet
\* of the same conversation by another author, behind it, was kept
C18_Witness ==
  /\ call.pc = "returned"
  /\ \E i, j \in 1..Len(call.tweets) :
       /\ i < j
       /\ call.tweets[i].author = "TeamDev"
       /\ call.tweets[i].conversation_id \notin call.seenBefore
       /\ call.tweets[j].conversation_id = call.tweets[i].conversation_id
       /\ call.tweets[i] \notin Range(call.filtered)
       /\ call.tweets[j] \in Range(call.filtered)

Min(S) == CHOOSE i \in S : \A j \in S : i <= j

\* positions of the batch whose tweet carries the conversation id and is not
\* by an excluded author
CarryingNotByTeam(c) == { i \in Carrying(c) : ~ByTeam(call.tweets[i]) }

\* C19: when two or more tweets of a batch carry one conversation id that is
\* not in the set passed in, exactly one of them is kept, the first of them in
\* the batch.
C19_ThreadCollapse ==
  call.pc = "returned" =>
    \A c \in ConversationIds \ call.seenBefore :
      Cardinality(Carrying(c)) >= 2 => KeptOf(c) = <<call.tweets[Min(Carrying(c))]>>

\* C19, amended: when two or more tweets of a batch, none of them by an
\* excluded author, carry one conversation id that is not in the set passed
\* in, exactly one tweet of that conversation is kept, the first of them in
\* the batch, and the id is in the set when the call returns.
C19_ThreadCollapseAmongAdmissible ==
  call.pc = "returned" =>
    \A c \in ConversationIds \ call.seenBefore :
      Cardinality(CarryingNotByTeam(c)) >= 2 =>
        /\ KeptOf(c) = <<call.tweets[Min(CarryingNotByTeam(c))]>>
        /\ c \in call.seenConversationIds

\* two different tweets of a conversation not seen, neither by the team, were
\* in one batch; the first was kept and the second dropped
C19_Witness ==
  /\ call.pc = "returned"
  /\ \E c \in ConversationIds \ call.seenBefore :
       \E i, j \in CarryingNotByTeam(c) :
         /\ i < j
         /\ call.tweets[i].id # call.tweets[j].id
         /\ call.tweets[i] \in Range(call.filtered)
         /\ call.tweets[j] \notin Range(call.filtered)
         /\ c \in call.seenConversationIds

\* the conversation ids carried by the items of a list
ConversationIdsOf(items) == { it.conversation_id : it \in Range(items) } \ {""}

\* C20: a run admits no item that carries the conversation id of an item
\* admitted by an earlier run (every such item is in the feed the run loads).
C20_ThreadSuppressedAcrossRuns ==
  [][ cli.pc = "fetch" =>
        \A it \in Range(cli'.newItems) :
          it.conversation_id \notin ConversationIdsOf(readOr(docsFeed, <<>>)) ]_vars

\* b is a with some positions left out
IsSubsequence(b, a) ==
  \E at \in [1..Len(b) -> 1..Len(a)] :
    /\ \A i \in 1..Len(b) : b[i] = a[at[i]]
    /\ \A i, j \in 1..Len(b) : i < j => at[i] < at[j]

\* C21: the list filterTweets returns is its input with some tweets left out:
\* nothing added, nothing twice that was there once, nothing out of order.
C21_OrderPreserved ==
  call.pc = "returned" => IsSubsequence(call.filtered, call.tweets)

\* of three tweets the middle one was dropped and the two others, different
\* tweets, were kept
C21_Witness ==
  /\ call.pc = "returned"
  /\ Len(call.tweets) = 3
  /\ call.filtered = <<call.tweets[1], call.tweets[3]>>
  /\ call.tweets[1].id # call.tweets[3].id

\* C22: a tweet without conversation id by an author who is not excluded is
\* kept, as often as it is in the batch, whatever the set holds, and the set
\* gains nothing but the conversation ids of kept tweets that carry one.
C22_NoConversationIdPasses ==
  call.pc = "returned" =>
    /\ \A tweet \in Range(call.tweets) :
         (tweet.conversation_id = "" /\ ~ByTeam(tweet)) =>
           Occurrences(call.filtered, tweet.id) = Occurrences(call.tweets, tweet.id)
    /\ call.seenConversationIds = call.seenBefore \cup ConversationIdsOf(call.filtered)
    /\ "" \notin call.seenConversationIds

\* a batch holding the same tweet without conversation id twice, and nothing
\* else, came back whole while every conversation id was in the set, and the
\* set is as it was
C22_Witness ==
  /\ call.pc = "returned"
  /\ Len(call.tweets) = 2
  /\ \A i \in 1..2 : call.tweets[i].conversation_id = "" /\ ~ByTeam(call.tweets[i])
  /\ call.filtered = call.tweets
  /\ call.seenBefore = ConversationIds
  /\ call.seenConversationIds = call.seenBefore

(***************************************************************************)
(* Claims about upsertPosts (SpecUpsert).                                  *)
(***************************************************************************)
\* positions of the list that hold the first post of their id
FirstOccurrences(posts) ==
  { i \in 1..Len(posts) : \A j \in 1..(i - 1) : posts[j].id # posts[i].id }

\* C23: without a configured store upsertPosts returns failure with count 0
\* and submits nothing; with one, a missing or empty list gives success with
\* count 0, and any other list is submitted in one request whose rows are the
\* first post of each id, in the order of the list, and which on success is
\* answered with the number of distinct ids as count.
C23_UpsertCollapsesDuplicates ==
  call.pc = "returned" =>
    IF ~call.supabase
    THEN call.result = UpsertResult(FALSE, 0) /\ call.submitted = <<>>
    ELSE IF ~call.posts.given \/ call.posts.list = <<>>
    THEN call.result = UpsertResult(TRUE, 0)
    ELSE LET posts == call.posts.list
         IN /\ Len(call.submitted) = 1
            /\ NoDuplicateIds(call.submitted[1])
            /\ IsSubsequence(call.submitted[1], posts)
            /\ Range(call.submitted[1]) = { posts[i] : i \in FirstOccurrences(posts) }
            /\ call.store = "ok" =>
                 call.result = UpsertResult(TRUE, Cardinality(Range(IdsOf(posts))))

\* a list holding one id under two contents, the second content first and the
\* other behind a post of another id, was submitted without the later one and
\* counted as two
C23_Witness ==
  /\ call.pc = "returned"
  /\ call.supabase
  /\ call.store = "ok"
  /\ Len(call.posts.list) = 3
  /\ call.posts.list[1].id = call.posts.list[3].id
  /\ call.posts.list[1] # call.posts.list[3]
  /\ call.submitted = << <<call.posts.list[1], call.posts.list[2]>> >>
  /\ call.result = UpsertResult(TRUE, 2)

(***************************************************************************)
(* Claims about failing saves and sinks.                                   *)
(***************************************************************************)
\* the step in which a write of the save step of cycle s fails
SaveFails(s) == cycle[s].pc \in {"saveFeed", "saveSeen"} /\ cycle'[s].pc = "none"

\* C24: when saveFeed or saveSeen of a poll cycle fails, data/feed.json and
\* data/seen.json hold after the cycle what the cycle loaded at its start.
C24_SaveFailureLeavesStateUntouched ==
  [][ \A s \in Slots :
        SaveFails(s) =>
          /\ dataFeed' = cycle[s].currentFeed
          /\ dataSeen' = cycle[s].seenData ]_vars

\* C25: an item that postBatchToSlack has received is not admitted by any
\* later cycle, whichever awaited step of whichever cycle failed, in
\* particular when data/feed.json was written and data/seen.json was not.
\* (The two items on offer never fill the seen ids to their limit.)
C25_NotifiedNeverReadmitted ==
  /\ \A s \in Slots :
       cycle[s].pc \in {"saveFeed", "saveSeen", "slack"} =>
         \A it \in Range(cycle[s].newItems) : slackCalls[it.id] = 0
  /\ \A id \in AllIds : slackCalls[id] <= 1
  /\ Len(dataSeen.ids) < SeenLimit

\* a cycle wrote the feed and failed to write the seen-set; a later cycle
\* admitted the same item again, saved both and sent it to the sink, once
C25_Witness ==
  /\ \E id \in AllIds : Occurrences(dataFeed, id) = 2 /\ slackCalls[id] = 1
                        /\ id \in Range(dataSeen.ids)
  /\ InFlight = {}

\* the step in which the call of the notification sink of cycle s returns or throws
SinkSettles(s) == cycle[s].pc = "slack" /\ cycle'[s].pc = "none"

\* C26: when postBatchToSlack of a cycle that admitted items returns or
\* throws, data/feed.json and data/seen.json hold what this cycle saved, the
\* in-progress flag is cleared and a manual trigger is answered with success.
C26_SinkFailureDoesNotBlockPersistence ==
  [][ \A s \in Slots :
        SinkSettles(s) =>
          /\ Len(cycle[s].newItems) > 0
          /\ dataFeed' = saveFeedImage(cycle[s].currentFeed \o cycle[s].newItems)
          /\ dataSeen' = saveSeenImage(
               [ids |-> cycle[s].seenData.ids \o IdsOf(cycle[s].newItems),
                conversations |-> cycle[s].seenData.conversations
                                  \o ConversationsOf(cycle[s].filteredTweets)])
          /\ IdsOf(cycle[s].newItems) # <<>>
          /\ Range(IdsOf(cycle[s].newItems)) \subseteq Range(dataSeen'.ids)
          /\ ~isPolling'
          /\ cycle[s].trigger = "manual" => response'.kind = "success" ]_vars

\* the sink threw in the only cycle that saved: both files hold the admitted
\* item, the sink has recorded nothing and no cycle is in flight
C26_Witness ==
  /\ lastOutcome = "failed"
  /\ dataFeed # <<>>
  /\ Range(IdsOf(dataFeed)) \subseteq Range(dataSeen.ids)
  /\ \A id \in AllIds : slackCalls[id] = 0
  /\ InFlight = {}
  /\ ~isPolling

\* the step in which a run of the CLI starts
RunStarts == cli.pc \in {"none", "done"} /\ cli'.pc = "fetch"

\* C27: a run that finds docs/data/feed.json missing or unparsable starts
\* from the empty feed, one that finds docs/data/seen.json missing or
\* unparsable starts from no ids and no conversations, and every run reaches
\* its exit with both files written from what it computed.
C27_LoadTolerant ==
  [][ /\ RunStarts =>
           /\ ~docsFeed.ok => cli'.feed = <<>>
           /\ ~docsSeen.ok => cli'.seenData = EmptySeen
      /\ cli'.pc = "done" /\ cli.pc # "done" =>
           /\ docsFeed' = File(docsFeedImage(cli'))
           /\ docsSeen' = File(trimmedSeen(cli')) ]_vars

\* a run has finished whose seen ids hold an id that its feed does not: the
\* feed file was lost before it and the run started from the empty feed
C27_Witness ==
  /\ cli.pc = "done"
  /\ docsFeed.ok /\ docsSeen.ok
  /\ docsFeed.data # <<>>
  /\ \E id \in Range(docsSeen.data.ids) : id \notin Range(IdsOf(docsFeed.data))

\* the ids a run has seen: those it loaded, as stored, then those it admitted
SeenInOrder(run) == run.seenData.ids \o IdsOf(run.newItems)

\* where id x first stands in ids
FirstAt(ids, x) == Min({ i \in DOMAIN ids : ids[i] = x })

\* kept holds every id of ids once, in the order of ids, or, when those are
\* more than n, the n of them that came last
MostRecentOf(kept, ids, n) ==
  /\ \A i, j \in DOMAIN kept : kept[i] = kept[j] => i = j
  /\ IsSubsequence(kept, ids)
  /\ Len(kept) = IF Cardinality(Range(ids)) <= n THEN Cardinality(Range(ids)) ELSE n
  /\ \A x \in Range(ids) \ Range(kept) :
       \A y \in Range(kept) : FirstAt(ids, x) < FirstAt(ids, y)

\* C28: once a run has written docs/data/seen.json, the file holds at most
\* SeenLimit ids and at most SeenLimit conversations, the ids being the last
\* SeenLimit of the loaded ids followed by the admitted ids (each id once),
\* and the conversations the last SeenLimit of the loaded ones.
C28_SeenCapped ==
  cli.pc \in {"sync", "done"} =>
    /\ docsSeen.ok
    /\ Len(docsSeen.data.ids) <= SeenLimit
    /\ Len(docsSeen.data.conversations) <= SeenLimit
    /\ MostRecentOf(docsSeen.data.ids, SeenInOrder(cli), SeenLimit)
    /\ docsSeen.data.conversations = SliceLast(cli.seenData.conversations, SeenLimit)

\* a run that loaded ids and admitted items has written fewer ids than it saw
C28_Witness ==
  /\ cli.pc = "done"
  /\ Len(cli.seenData.ids) > 0
  /\ Len(cli.newItems) > 0
  /\ Cardinality(Range(SeenInOrder(cli))) > SeenLimit
  /\ Len(docsSeen.data.ids) = SeenLimit

\* the slice of line 116 drops something
TrimApplies(run) == Cardinality(Range(SeenInOrder(run))) > SeenLimit

\* C29: the set of seen ids of a run holds the loaded ids and the ids of the
\* admitted items and nothing else, and unless the slice drops something
\* docs/data/seen.json holds exactly these ids.
C29_SeenIsUnion ==
  cli.pc \in {"sync", "done"} =>
    LET loaded == Range(cli.seenData.ids)
        admitted == { it.id : it \in Range(cli.newItems) }
    IN /\ Range(cli.seen) = loaded \cup admitted
       /\ Range(docsSeen.data.ids) \subseteq loaded \cup admitted
       /\ ~TrimApplies(cli) => Range(docsSeen.data.ids) = loaded \cup admitted

\* a run that loaded ids and admitted items has written all of them
C29_Witness ==
  /\ cli.pc = "done"
  /\ Len(cli.seenData.ids) > 0
  /\ Len(cli.newItems) > 0
  /\ ~TrimApplies(cli)
  /\ Len(docsSeen.data.ids) = Len(cli.seenData.ids) + Len(cli.newItems)

\* the step in which cycle s ends in the catch before it reached saveFeed
FailsBeforeSave(s) ==
  /\ cycle[s].pc \in {"load", "fetch"}
  /\ cycle'[s].pc = "none"
  /\ lastOutcome' = "failed"

\* C30: a poll cycle that throws while loading or fetching leaves
\* data/feed.json and data/seen.json as they were and calls the sink for
\* nothing: the files still hold what the cycle loaded, if it loaded.
C30_ErrorBeforeSaveTouchesNothing ==
  [][ \A s \in Slots :
        FailsBeforeSave(s) =>
          /\ dataFeed' = dataFeed /\ dataSeen' = dataSeen /\ slackCalls' = slackCalls
          /\ cycle[s].pc = "fetch" =>
               dataFeed' = cycle[s].currentFeed /\ dataSeen' = cycle[s].seenData
          /\ cycle[s].newItems = <<>> ]_vars

\* both items are in the feed, seen and notified, so the cycle that failed
\* last had nothing to admit: it threw while loading or fetching
C30_Witness ==
  /\ lastOutcome = "failed"
  /\ InFlight = {}
  /\ Len(dataFeed) = 2
  /\ \A it \in FewItems : it.id \in Range(dataSeen.ids) /\ slackCalls[it.id] = 1
                          /\ Occurrences(dataFeed, it.id) = 1

(***************************************************************************)
(* The ids the adapters build.  A string is a sequence of its parts, a     *)
(* template literal their concatenation; "" stands for a missing field.    *)
(***************************************************************************)
\* every variable but call, as the program leaves them when no cycle runs
NothingRuns ==
  /\ isPolling = FALSE
  /\ lastManualRefresh = 0
  /\ now = StartTime
  /\ phase = "init"
  /\ cycle = [s \in Slots |-> NoCycle]
  /\ response = NoResponse
  /\ lastOutcome = "none"
  /\ lastTrigger = [kind |-> "none", effect |-> "none"]
  /\ slackCalls = [i \in { it.id : it \in Catalogue } |-> 0]
  /\ idleTriggers = 0
  /\ cyclesStarted = 0
  /\ fetchLog = NoFetchLog
  /\ dataFeed = <<>>
  /\ dataSeen = EmptySeen
  /\ docsFeed = NoFile
  /\ docsSeen = NoFile
  /\ cli = NoRun
  /\ prev = NoPrev
  /\ runs = 0
  /\ evicted = {}

\* a || b on strings
OrElse(a, b) == IF a # "" THEN a ELSE b

\* String(Date.now()), the clock counted in ms from the first fetch
Decimal(n) == <<"0", "1", "2", "3", "4", "5", "6", "7", "8", "9">>[n + 1]

\* part_000 line 100: `reddit_${post.parsedId || post.id || Date.now()}`
redditId(post, clock) == <<"reddit", "_", OrElse(post.parsedId, OrElse(post.id, Decimal(clock)))>>

\* github.js line 74: `github_discussion_${discussion.number}`
discussionId(discussion) == <<"github", "_", "discussion", "_", discussion.number>>

\* github.js line 88: `github_issue_${issue.number}`
issueId(issue) == <<"github", "_", "issue", "_", issue.number>>

\* twitter.js lines 101, 120: `twitter_${tweetId}`
tweetItemId(tweet) == <<"twitter", "_", tweet.id>>

\* the id an adapter gives a source item fetched at the clock reading
itemId(x, clock) ==
  CASE x.kind = "post" -> redditId(x, clock)
    [] x.kind = "discussion" -> discussionId(x)
    [] x.kind = "issue" -> issueId(x)
    [] x.kind = "tweet" -> tweetItemId(x)

NativeIds == {"1", "2", "x7"}

\* what the sources hold: Reddit posts that passed the filter of part_000
\* lines 89-90 (a title, no id required), discussions, issues and tweets
SourceItems ==
  { [kind |-> "post", parsedId |-> a, id |-> b, number |-> ""] : a, b \in NativeIds \cup {""} }
    \cup { [kind |-> k, parsedId |-> "", id |-> "", number |-> n] :
             k \in {"discussion", "issue"}, n \in {"1", "2"} }
    \cup { [kind |-> "tweet", parsedId |-> "", id |-> a, number |-> ""] : a \in NativeIds }

SourceOf(x) == IF x.kind = "post" THEN "reddit"
               ELSE IF x.kind = "tweet" THEN "twitter" ELSE "github"

\* two items of the sources, not yet fetched
InitIds ==
  /\ NothingRuns
  /\ \E x, y \in SourceItems :
       call = [pc |-> "ids", items |-> <<x, y>>, clock |-> 0, fetches |-> <<>>]

\* the adapters fetch both items once more, some ms later, and build their ids
Refetch ==
  /\ call.pc = "ids"
  /\ Len(call.fetches) < MaxRefetches
  /\ \E later \in 1..2 :
       /\ call.clock + later <= 9
       /\ call' = [call EXCEPT
                     !.clock = call.clock + later,
                     !.fetches = Append(call.fetches,
                                        <<itemId(call.items[1], call.clock + later),
                                          itemId(call.items[2], call.clock + later)>>)]
  /\ UNCHANGED <<schedVars, fileVars, cliVars>>

NextIds == Refetch

SpecIds == InitIds /\ [][NextIds]_vars

\* C31: every fetch gives an item the id the first fetch gave it, and two
\* items of different sources never get the same id.
C31_IdsStable ==
  call.pc = "ids" =>
    /\ \A i, j \in DOMAIN call.fetches, k \in 1..2 : call.fetches[i][k] = call.fetches[j][k]
    /\ SourceOf(call.items[1]) # SourceOf(call.items[2]) =>
         \A i, j \in DOMAIN call.fetches : call.fetches[i][1] # call.fetches[j][2]

\* C32: when a run of the CLI has finished, docs/data/feed.json holds no two
\* items with the same id, also when the run found seen.json missing or
\* unparsable, the feed intact, and fetched items the feed already held.
C32_NoDuplicateAfterSeenLoss ==
  (cli.pc = "done" /\ docsFeed.ok) =>
    \A id \in AllIds : Occurrences(docsFeed.data, id) <= 1

\* the step in which /api/refresh passes both checks (line 247)
RefreshAccepted == lastManualRefresh' # lastManualRefresh

\* C33: a manual refresh that passes both checks finds the flag clear and
\* starts a cycle of its own in the same step, never taking the skip of
\* pollFeeds; a second refresh at the same instant is not accepted.
C33_AcceptedRefreshStartsCycle ==
  [][ /\ RefreshAccepted =>
           /\ ~isPolling /\ isPolling'
           /\ lastManualRefresh' = now
           /\ lastTrigger' = [kind |-> "manual", effect |-> "started"]
           /\ cyclesStarted' = cyclesStarted + 1
           /\ \E s \in Slots : /\ cycle[s].pc = "none"
                               /\ cycle'[s].pc = "load"
                               /\ cycle'[s].trigger = "manual"
           /\ refreshDecision(isPolling', now') # "accepted"
      /\ lastTrigger' # [kind |-> "manual", effect |-> "skipped"] ]_vars

\* a second refresh came at the instant of an accepted one and was answered
\* busy, the cycle of the first being in flight
C33_Witness ==
  /\ lastManualRefresh = now
  /\ lastTrigger = [kind |-> "manual", effect |-> "busy"]
  /\ response.kind = "busy"
  /\ cyclesStarted = 2
  /\ \E s \in Slots : cycle[s].pc = "load" /\ cycle[s].trigger = "manual"

\* the step in which a trigger is turned away: a refresh answered 429 or a
\* pollFeeds call that returns at its guard
TriggerRejected ==
  /\ \/ lastTrigger' # lastTrigger
     \/ idleTriggers' # idleTriggers
     \/ response' # response /\ response'.status = 429
  /\ lastTrigger'.effect \in {"busy", "throttled", "skipped"}

\* C34: a trigger that is turned away leaves isPolling, lastManualRefresh
\* and the cycles as they were; one turned away because a cycle runs leaves
\* isPolling true.
C34_RejectedTriggerChangesNothing ==
  [][ TriggerRejected =>
        /\ isPolling' = isPolling
        /\ lastManualRefresh' = lastManualRefresh
        /\ cycle' = cycle /\ cyclesStarted' = cyclesStarted
        /\ lastTrigger'.effect \in {"busy", "skipped"} => isPolling' ]_vars

\* a cron tick was skipped while the cycle of a refresh runs, after another
\* refresh was answered busy: the flag is set and the cool-down still counts
\* from the accepted refresh
C34_Witness ==
  /\ lastTrigger = [kind |-> "cron", effect |-> "skipped"]
  /\ isPolling
  /\ \E s \in Slots : cycle[s].pc # "none" /\ cycle[s].trigger = "manual"
  /\ response.kind = "busy"
  /\ lastManualRefresh > 0 /\ lastManualRefresh < now

\* what cycle s writes to data/feed.json and to data/seen.json
FeedWritten(s) == saveFeedImage(cycle[s].currentFeed \o cycle[s].newItems)
SeenWritten(s) ==
  saveSeenImage([ids |-> cycle[s].seenData.ids \o IdsOf(cycle[s].newItems),
                 conversations |-> cycle[s].seenData.conversations
                                   \o ConversationsOf(cycle[s].filteredTweets)])

\* C35: data/feed.json changes only in a cycle at saveFeed, data/seen.json
\* only in a cycle at saveSeen whose feed is written, and the sink is called
\* only by a cycle at the sink call whose feed and seen ids are both written.
C35_SaveOrder ==
  [][ /\ dataFeed' # dataFeed => \E s \in Slots : cycle[s].pc = "saveFeed"
      /\ dataSeen' # dataSeen =>
           \E s \in Slots : cycle[s].pc = "saveSeen" /\ dataFeed = FeedWritten(s)
      /\ slackCalls' # slackCalls =>
           \E s \in Slots : /\ cycle[s].pc = "slack"
                            /\ dataFeed = FeedWritten(s)
                            /\ dataSeen = SeenWritten(s)
      /\ \A s \in Slots :
           /\ cycle'[s].pc = "saveSeen" => dataFeed' = FeedWritten(s)'
           /\ cycle'[s].pc = "slack" => dataFeed' = FeedWritten(s)' /\ dataSeen' = SeenWritten(s)' ]_vars

\* a cycle is at the sink call: both files hold its items, not yet notified
C35_Witness ==
  \E s \in Slots :
    /\ cycle[s].pc = "slack"
    /\ Len(cycle[s].newItems) = 1
    /\ Len(dataFeed) = 2
    /\ \A it \in Range(cycle[s].newItems) :
         /\ slackCalls[it.id] = 0
         /\ it.id \in Range(dataSeen.ids)
         /\ Occurrences(dataFeed, it.id) = 1

\* the step in which the cycle of an accepted refresh ends
RefreshCycleEnds(s) ==
  cycle[s].trigger = "manual" /\ cycle[s].pc # "none" /\ cycle'[s].pc = "none"

\* C36: the success answer of /api/refresh is given in the step that ends
\* the cycle of the refresh, with the flag clear and no cycle in flight,
\* whether the body failed or not; no answer is ever a 500.
C36_RefreshAnsweredAfterCycle ==
  [][ /\ \A s \in Slots :
           RefreshCycleEnds(s) =>
             /\ response' = [status |-> 200, kind |-> "success", wait |-> 0]
             /\ ~isPolling'
             /\ \A t \in Slots : cycle'[t].pc = "none"
      /\ (response' # response /\ response'.status \notin {429}) =>
           \E s \in Slots : RefreshCycleEnds(s)
      /\ response'.status # 500 ]_vars

\* the cycle of a refresh failed and the refresh was answered with success
C36_Witness ==
  /\ response.kind = "success"
  /\ lastOutcome = "failed"
  /\ cyclesStarted = 2
  /\ lastTrigger = [kind |-> "manual", effect |-> "started"]
  /\ InFlight = {}
  /\ ~isPolling

\* C37: the set after the call holds what it held before and the
\* conversation ids of the kept tweets, nothing a dropped tweet carried; a
\* tweet by another author whose conversation was not in the set and is
\* carried before it by excluded authors only is the kept tweet of that
\* conversation.
C37_DroppedLeavesSetAlone ==
  call.pc = "returned" =>
    /\ call.seenConversationIds = call.seenBefore \cup ConversationIdsOf(call.filtered)
    /\ \A j \in 1..Len(call.tweets) :
         LET tweet == call.tweets[j]
             c == tweet.conversation_id
         IN (/\ ~ByTeam(tweet)
             /\ c # "" /\ c \notin call.seenBefore
             /\ \A i \in 1..(j - 1) : call.tweets[i].conversation_id = c => ByTeam(call.tweets[i]))
            => KeptOf(c) = <<tweet>>

\* the first tweet, by the team, was dropped and its conversation is not in
\* the set; the second, by the team, was dropped and the third, of the same
\* conversation by another author, was kept and put its conversation there
C37_Witness ==
  /\ call.pc = "returned"
  /\ call.seenBefore = {}
  /\ Len(call.tweets) = 3 /\ Len(call.filtered) = 1
  /\ ByTeam(call.tweets[1])
  /\ call.tweets[1].conversation_id \notin call.seenConversationIds
  /\ ByTeam(call.tweets[2])
  /\ call.tweets[2].conversation_id = call.tweets[3].conversation_id
  /\ call.filtered = <<call.tweets[3]>>
  /\ call.seenConversationIds = {call.tweets[3].conversation_id}

(***************************************************************************)
(* The adapters' wait for the Apify run: scrapeTwitter (twitter.js 56-148) *)
(* and scrapeReddit (part_000 53-81, part_001 48-76, the same loop).       *)
(***************************************************************************)
maxAttempts == 24

\* the statuses a run may report
RunStatuses == {"READY", "RUNNING", "SUCCEEDED", "FAILED", "ABORTED", "TIMED-OUT"}

\* a loop that tests attempts <= maxAttempts
StillWaiting_OneMore(adapter, runStatus, attempts) ==
  IF adapter = "twitter" THEN attempts <= maxAttempts
  ELSE runStatus = "RUNNING" /\ attempts <= maxAttempts

\* twitter.js line 61: while (attempts < maxAttempts)
\* part_000 line 59: while (runStatus === 'RUNNING' && attempts < maxAttempts)
StillWaiting(adapter, runStatus, attempts) ==
  IF adapter = "twitter" THEN attempts < maxAttempts
  ELSE runStatus = "RUNNING" /\ attempts < maxAttempts

\* what the dataset of the run holds, after the adapter's filter and map
Datasets == {<<>>} \cup { <<it>> : it \in { c \in Catalogue : c.source \in {"reddit", "twitter"} } }

\* a call of an adapter has started its run and is about to wait
InitWait ==
  /\ NothingRuns
  /\ \E adapter \in {"twitter", "reddit"}, dataset \in Datasets, hasDatasetId \in BOOLEAN :
       call = [pc |-> "waiting", adapter |-> adapter, dataset |-> dataset,
               hasDatasetId |-> hasDatasetId, runStatus |-> "RUNNING", attempts |-> 0,
               succeeded |-> FALSE, result |-> <<>>]

\* the adapter returns the list
adapterReturns(list) == call' = [call EXCEPT !.pc = "returned", !.result = list]

\* twitter.js lines 62-75, part_000 lines 60-70: five seconds pass, the
\* status request answers, and the loop body runs up to the next await
StatusCheck ==
  /\ call.pc = "waiting"
  /\ StillWaiting(call.adapter, call.runStatus, call.attempts)
  /\ \E status \in RunStatuses :
       LET checked == [call EXCEPT !.attempts = call.attempts + 1,
                                   !.runStatus = status,
                                   !.succeeded = call.succeeded \/ status = "SUCCEEDED"]
       IN IF call.adapter = "twitter"
          THEN CASE status = "SUCCEEDED" -> call' = [checked EXCEPT !.pc = "dataset"]
                 [] status \in {"FAILED", "ABORTED", "TIMED-OUT"} ->
                      call' = [checked EXCEPT !.pc = "returned"]
                 [] OTHER -> call' = checked
          ELSE call' = checked
  /\ UNCHANGED <<schedVars, fileVars, cliVars>>

\* twitter.js lines 61, 144-148: the loop ends at maxAttempts, return tweets
\* part_000 lines 59, 73-81: the loop ends, the two early returns
LoopEnds ==
  /\ call.pc = "waiting"
  /\ ~StillWaiting(call.adapter, call.runStatus, call.attempts)
  /\ IF call.adapter = "twitter"
     THEN adapterReturns(<<>>)
     ELSE IF call.runStatus # "SUCCEEDED" \/ ~call.hasDatasetId
          THEN adapterReturns(<<>>)
          ELSE call' = [call EXCEPT !.pc = "dataset"]
  /\ UNCHANGED <<schedVars, fileVars, cliVars>>

\* twitter.js lines 79-148, part_000 lines 84-112: the dataset request answers
DatasetFetched ==
  /\ call.pc = "dataset"
  /\ adapterReturns(call.dataset)
  /\ UNCHANGED <<schedVars, fileVars, cliVars>>

\* twitter.js lines 150-156, part_000 catch: a request fails, return []
RequestFails ==
  /\ call.pc \in {"waiting", "dataset"}
  /\ call.pc = "waiting" => StillWaiting(call.adapter, call.runStatus, call.attempts)
  /\ call' = [call EXCEPT !.pc = "returned", !.result = <<>>,
                          !.attempts = IF call.pc = "waiting" THEN call.attempts + 1
                                       ELSE call.attempts]
  /\ UNCHANGED <<schedVars, fileVars, cliVars>>

NextWait == StatusCheck \/ LoopEnds \/ DatasetFetched \/ RequestFails

SpecWait == InitWait /\ [][NextWait]_vars

\* every timer fires and every request is answered or fails
FairSpecWait == SpecWait /\ WF_vars(NextWait)

\* the call has made no more than maxAttempts status checks, and what it
\* returned is empty unless a check reported SUCCEEDED
WaitBounded ==
  /\ call.attempts <= maxAttempts
  /\ (call.pc = "returned" /\ ~call.succeeded) => call.result = <<>>
  /\ call.result # <<>> => call.succeeded /\ call.runStatus = "SUCCEEDED"

\* C38: a call of scrapeTwitter or scrapeReddit makes at most maxAttempts
\* status checks whatever the run reports, and returns; what it returns is
\* empty unless a check reported SUCCEEDED.
C38_WaitLoopsTerminate == []WaitBounded /\ <>(call.pc = "returned")

\* scrapeTwitter gave up after maxAttempts checks of a run that never
\* succeeded and returned nothing, the dataset holding an item
C38_Witness ==
  /\ call.pc = "returned"
  /\ call.adapter = "twitter"
  /\ call.attempts = maxAttempts
  /\ call.runStatus \in {"READY", "RUNNING"}
  /\ ~call.succeeded
  /\ call.dataset # <<>>
  /\ call.result = <<>>

====
